---- MODULE Spec2Model ----
(***************************************************************************)
(* A model of the knowledge-base search engine: the RAGEngine of           *)
(* backend/rag_engine.py (chunking, ingestion, retrieval, answer           *)
(* synthesis, statistics, clear) and the HTTP handlers of backend/main.py  *)
(* that call it.                                                           *)
(*                                                                         *)
(* A text is a sequence of one-character strings.  The vector store, the   *)
(* embedding model and the LLM are external services: the model draws the  *)
(* outcome of each of their calls from the outcomes they can produce.      *)
(***************************************************************************)
EXTENDS Integers, Sequences, FiniteSets, TLC

(***************************************************************************)
(* Bounds of the model.                                                    *)
(***************************************************************************)
MaxLen == 5          \* longest text handed to chunk_text in SpecChunk
MaxChunkSize == 3    \* largest chunk_size tried in SpecChunk
MaxOverlap == 3      \* largest overlap tried in SpecChunk
MaxTopK == 3         \* largest top_k asked of a query

(***************************************************************************)
(* Program constants.                                                      *)
(***************************************************************************)
DefaultChunkSize == 500
DefaultOverlap == 50

(***************************************************************************)
(* Text helpers: str.split() and ' '.join().                               *)
(***************************************************************************)
Whitespace == {" ", "\n"}

Min(a, b) == IF a < b THEN a ELSE b

\* A word starts at position i: a non-whitespace character at the start of
\* the text or right after a whitespace character.
IsWordStart(text, i) ==
    /\ text[i] \notin Whitespace
    /\ (i = 1 \/ text[i - 1] \in Whitespace)

\* The last position of the word that starts at position s.
WordEnd(text, s) ==
    CHOOSE e \in s..Len(text) :
        /\ \A j \in s..e : text[j] \notin Whitespace
        /\ (e = Len(text) \/ text[e + 1] \in Whitespace)

\* The words whose first character lies in lo..hi, in text order.
RECURSIVE WordsIn(_, _, _)
WordsIn(text, lo, hi) ==
    IF lo > hi THEN <<>>
    ELSE IF lo = hi
         THEN IF IsWordStart(text, lo)
              THEN <<SubSeq(text, lo, WordEnd(text, lo))>>
              ELSE <<>>
         ELSE LET mid == (lo + hi) \div 2
              IN  WordsIn(text, lo, mid) \o WordsIn(text, mid + 1, hi)

\* text.split(): the maximal runs of non-whitespace characters, in order.
split(text) == WordsIn(text, 1, Len(text))

\* ' '.join(words[lo..hi]).
RECURSIVE JoinRange(_, _, _)
JoinRange(words, lo, hi) ==
    IF lo > hi THEN <<>>
    ELSE IF lo = hi THEN words[lo]
         ELSE LET mid == (lo + hi) \div 2
              IN  JoinRange(words, lo, mid) \o <<" ">> \o JoinRange(words, mid + 1, hi)

join(words) == JoinRange(words, 1, Len(words))

\* words[i:i + n] for 0 <= i and 0 <= n (Python's 0-based, clamped slice).
Slice(words, i, n) == SubSeq(words, i + 1, Min(i + n, Len(words)))

(***************************************************************************)
(* RAGEngine.chunk_text                                                    *)
(***************************************************************************)
\* The body of "for i in range(0, len(words), step)" from index i on, with
\* step > 0.
RECURSIVE ChunkLoop(_, _, _, _, _)
ChunkLoop(words, i, chunk_size, step, chunks) ==
    IF i >= Len(words) THEN chunks
    ELSE LET chunk == join(Slice(words, i, chunk_size))
         IN  ChunkLoop(words, i + step, chunk_size, step,
                       IF chunk # <<>> THEN Append(chunks, chunk) ELSE chunks)

\* The same loop advancing by chunk_size: the overlap is forgotten.
ChunkTextNoOverlap(text, chunk_size, overlap) ==
    IF chunk_size - overlap = 0
    THEN [raised |-> "ValueError", chunks |-> <<>>]
    ELSE IF chunk_size - overlap < 0
         THEN [raised |-> "none", chunks |-> <<>>]
         ELSE [raised |-> "none",
               chunks |-> ChunkLoop(split(text), 0, chunk_size, chunk_size, <<>>)]

\* chunk_text(text, chunk_size, overlap), for chunk_size >= 1 and overlap >= 0.
\* range(0, n, 0) raises ValueError; range(0, n, step) with step < 0 is empty.
chunk_text(text, chunk_size, overlap) ==
    IF chunk_size - overlap = 0
    THEN [raised |-> "ValueError", chunks |-> <<>>]
    ELSE IF chunk_size - overlap < 0
         THEN [raised |-> "none", chunks |-> <<>>]
         ELSE [raised |-> "none",
               chunks |-> ChunkLoop(split(text), 0, chunk_size,
                                    chunk_size - overlap, <<>>)]

(***************************************************************************)
(* State.                                                                  *)
(***************************************************************************)
VARIABLES
    backend,     \* what the vector store does with an id it already holds
    collection,  \* self.collection: the set of index entries
    uploads,     \* the file names saved under UPLOAD_DIR
    request,     \* the HTTP request being served ([handler |-> "none"]: a direct call)
    response,    \* the HTTP response of that request
    call,        \* the last call of a RAGEngine entrypoint, with its arguments
    result,      \* what that call returned, or the exception that left it
    calls,       \* how often that call invoked each external service
    lastChunks,  \* history: the chunker's output inside that call
    ranking,     \* history: the ids the store ranked for that call, nearest first
    cleared,     \* history: "no" once an ingestion is called; else what the last
                 \* clear found in the index: "entries" or "nothing"
    survivors,   \* history: the entries the last clear left in the collection
    cText, cSize, cOverlap,  \* the arguments of a chunk_text call (SpecChunk)
    cOut,        \* its outcome (SpecChunk)
    tasks,       \* the requests the server has accepted, each with the position
                 \* of its handler (SpecServe)
    dropped,     \* the client has deleted the collection self.collection is
                 \* bound to and has not created the next one yet
    epoch        \* history: the delete and create steps taken so far

evars == <<backend, collection, uploads, request, response, call, result, calls,
           lastChunks, ranking, cleared, survivors>>
cvars == <<cText, cSize, cOverlap, cOut>>
svars == <<tasks, dropped, epoch>>
vars == <<evars, cvars, svars>>

(***************************************************************************)
(* Inputs.                                                                 *)
(***************************************************************************)
\* File names, as Path splits them.
NameA == [stem |-> "a", suffix |-> ".txt"]
NameB == [stem |-> "b", suffix |-> ".PDF"]
NameC == [stem |-> "c", suffix |-> ".md"]

NoName == [stem |-> "", suffix |-> ""]     \* document_name=None

\* str.lower() on the suffixes above.
Lower(suffix) ==
    IF suffix = ".PDF" THEN ".pdf"
    ELSE IF suffix = ".TXT" THEN ".txt"
    ELSE suffix

\* A text of n >= 1 one-letter words separated by single spaces.
RECURSIVE WordsText(_)
WordsText(n) ==
    IF n = 1 THEN <<"a">>
    ELSE WordsText(n \div 2) \o <<" ">> \o WordsText(n - n \div 2)

\* One more word than one window advance: the shortest text of two chunks.
LongText == WordsText(DefaultChunkSize - DefaultOverlap + 1)

\* The content of a .txt file is its text, that of a .pdf file its pages.
Files ==
    {[name |-> NameA, data |-> d] :
        d \in {<<>>, <<"a", " ", "b">>, LongText}}
    \cup {[name |-> NameB, data |-> <<<<"b">>>>]}
    \cup {[name |-> NameC, data |-> <<>>]}

DocumentNames == {NoName, NameA}

\* chunk_text(text): the call with the default parameters.  The chunks of
\* LongText are evaluated once.
LongTextChunks == chunk_text(LongText, DefaultChunkSize, DefaultOverlap)
DefaultChunks(text) ==
    IF text = LongText THEN LongTextChunks
    ELSE chunk_text(text, DefaultChunkSize, DefaultOverlap)

Questions == {<<>>, <<" ">>, <<"q">>}
TopKs == 1..MaxTopK

(***************************************************************************)
(* External services.  Each operator is the set of outcomes of one call.   *)
(***************************************************************************)
Backends == {"rejects_existing_ids", "ignores_existing_ids"}

NoCalls == [count |-> 0, encode |-> 0, add |-> 0, query |-> 0, llm |-> 0,
            delete |-> 0, create |-> 0]
Called(c, service) == [c EXCEPT ![service] = @ + 1]

\* SentenceTransformer.encode(texts): one vector per text, in order, or an
\* exception.  A vector is abstracted to one number.
Vector(text) == Len(text)
encode(texts) ==
    {[raised |-> TRUE, vectors |-> <<>>],
     [raised |-> FALSE, vectors |-> [i \in DOMAIN texts |-> Vector(texts[i])]]}

HasDuplicates(seq) == \E i, j \in DOMAIN seq : i # j /\ seq[i] = seq[j]

\* collection.add(embeddings, documents, ids, metadatas): validates the whole
\* batch before it writes, so a failing add writes nothing.  An id already in
\* the collection makes the add fail in stores that reject it; the others keep
\* the entry they hold and add the rest of the batch without an error.
CollectionAdd(coll, policy, embeddings, documents, ids, metadatas) ==
    LET held == {e.id : e \in coll}
        entry(i) == [id |-> ids[i], embedding |-> embeddings[i],
                     document |-> documents[i], metadata |-> metadatas[i]]
        invalid == \/ ids = <<>>
                   \/ Len(embeddings) # Len(ids)
                   \/ Len(documents) # Len(ids)
                   \/ Len(metadatas) # Len(ids)
                   \/ HasDuplicates(ids)
                   \/ /\ policy = "rejects_existing_ids"
                      /\ \E i \in DOMAIN ids : ids[i] \in held
    IN  {[raised |-> TRUE, collection |-> coll]}
        \cup (IF invalid THEN {}
              ELSE {[raised |-> FALSE,
                     collection |-> coll \cup {entry(i) : i \in
                                        {j \in DOMAIN ids : ids[j] \notin held}}]})

\* collection.count(): total on the in-process collection.
CollectionCount(coll) == {[raised |-> FALSE, count |-> Cardinality(coll)]}

\* The sequences of k distinct members of S.
Arrangements(S, k) ==
    {s \in [1..k -> S] : \A i, j \in 1..k : i # j => s[i] # s[j]}

\* collection.query(query_embeddings, n_results): the n_results nearest
\* entries, nearest first (all of them when the collection holds fewer), or
\* an exception.  Which entries are nearest is the store's business: every
\* ranking is possible.  A distance is abstracted to the rank.
CollectionQuery(coll, query_embedding, n_results) ==
    {[raised |-> TRUE, results |-> <<>>]}
    \cup {[raised |-> FALSE,
           results |-> [i \in DOMAIN r |->
                          [document |-> r[i].document, metadata |-> r[i].metadata,
                           distance |-> i - 1, id |-> r[i].id]]] :
          r \in Arrangements(coll, Min(n_results, Cardinality(coll)))}

\* chroma_client.delete_collection / create_collection: total on the
\* in-process client while the collection exists.
DeleteCollection(coll) == {[raised |-> FALSE]}
CreateCollection == {[raised |-> FALSE, collection |-> {}]}

\* groq_client.chat.completions.create(...): an answer or an exception.
ChatCompletion(prompt) ==
    {[raised |-> TRUE, answer |-> ""], [raised |-> FALSE, answer |-> "answer"]}

(***************************************************************************)
(* RAGEngine: each entrypoint is the set of its outcomes: what it returns  *)
(* (result), how often it invoked each service (calls) and, where it has   *)
(* one, the collection it leaves, the chunks it made, the store's ranking. *)
(***************************************************************************)
\* An exception that leaves an entrypoint instead of a returned dict.
Raised(e) == [exception |-> e]
IsException(r) == "exception" \in DOMAIN r

\* extract_text_from_pdf: every page's text followed by a newline, or the
\* exception the method raises when the file cannot be read as a PDF.
RECURSIVE PagesText(_)
PagesText(pages) ==
    IF pages = <<>> THEN <<>>
    ELSE Head(pages) \o <<"\n">> \o PagesText(Tail(pages))

extract_text_from_pdf(pages) ==
    {[raised |-> "Error extracting PDF", text |-> <<>>],
     [raised |-> "none", text |-> PagesText(pages)]}

\* extract_text_from_txt: the file's text, or the exception the method
\* raises when the file cannot be read as UTF-8.
extract_text_from_txt(data) ==
    {[raised |-> "Error reading text file", text |-> <<>>],
     [raised |-> "none", text |-> data]}

\* The name ingest_document files the document under.
DocumentName(file, document_name) ==
    IF document_name = NoName THEN file.name ELSE document_name

\* The chunk id f"{document_name}_chunk_{i}".
ChunkId(document_name, i) == <<document_name, "_chunk_", i>>

ingest_document(coll, policy, file, document_name) ==
    LET name == DocumentName(file, document_name)
        suffix == Lower(file.name.suffix)
        Error(message, cs, made) ==
            [collection |-> coll,
             result |-> [status |-> "error", message |-> message],
             calls |-> cs, chunks |-> made]
        Store(made, embeddings) ==
            LET chunk_ids == [i \in DOMAIN made |-> ChunkId(name, i - 1)]
                metadatas == [i \in DOMAIN made |->
                                [source |-> name, chunk_id |-> i - 1]]
                cs == Called(Called(NoCalls, "encode"), "add")
            IN  {IF a.raised
                 THEN Error("collection.add failed", cs, made)
                 ELSE [collection |-> a.collection,
                       result |-> [status |-> "success",
                                   document_name |-> name,
                                   chunks_created |-> Len(made),
                                   message |-> "Successfully ingested"],
                       calls |-> cs, chunks |-> made] :
                 a \in CollectionAdd(coll, policy, embeddings, made,
                                     chunk_ids, metadatas)}
        Embed(made) ==
            UNION {IF v.raised
                   THEN {Error("encode failed", Called(NoCalls, "encode"), made)}
                   ELSE Store(made, v.vectors) : v \in encode(made)}
        Chunk(text) ==
            LET c == DefaultChunks(text)
            IN  IF c.raised # "none"
                THEN {Error(c.raised, NoCalls, <<>>)}
                ELSE Embed(c.chunks)
        extracted ==
            IF suffix = ".pdf" THEN extract_text_from_pdf(file.data)
            ELSE IF suffix = ".txt" THEN extract_text_from_txt(file.data)
            ELSE {[raised |-> "Unsupported file type", text |-> <<>>]}
    IN  UNION {IF x.raised # "none"
               THEN {Error(x.raised, NoCalls, <<>>)}
               ELSE Chunk(x.text) : x \in extracted}

\* retrieve_context(query, top_k): the set of [raised, context_chunks,
\* results, calls]; nothing here catches an exception.
retrieve_context(coll, question, top_k, cs) ==
    UNION {IF v.raised
           THEN {[raised |-> TRUE, context_chunks |-> <<>>, results |-> <<>>,
                  calls |-> Called(cs, "encode")]}
           ELSE {IF q.raised
                 THEN [raised |-> TRUE, context_chunks |-> <<>>, results |-> <<>>,
                       calls |-> Called(Called(cs, "encode"), "query")]
                 ELSE [raised |-> FALSE,
                       context_chunks |->
                           [i \in DOMAIN q.results |->
                               [text |-> q.results[i].document,
                                source |-> q.results[i].metadata.source,
                                distance |-> q.results[i].distance]],
                       results |-> q.results,
                       calls |-> Called(Called(cs, "encode"), "query")] :
                 q \in CollectionQuery(coll, v.vectors, top_k)} :
           v \in encode(<<question>>)}

\* list(set(...)): the distinct members of seq, in any order.
ListOfSet(seq) ==
    LET S == {seq[i] : i \in DOMAIN seq}
    IN  Arrangements(S, Cardinality(S))

\* generate_answer listing the source of every chunk: list(...) without set(...).
GenerateAnswerAllSources(question, context_chunks) ==
    {IF c.raised
     THEN [status |-> "error", message |-> "Error generating answer"]
     ELSE [status |-> "success",
           answer |-> c.answer,
           sources |-> [i \in DOMAIN context_chunks |-> context_chunks[i].source],
           context_used |-> Len(context_chunks)] :
     c \in ChatCompletion(<<question, context_chunks>>)}

\* generate_answer(query, context_chunks): the set of returned dicts.
generate_answer(question, context_chunks) ==
    LET all == [i \in DOMAIN context_chunks |-> context_chunks[i].source]
    IN  UNION {IF c.raised
               THEN {[status |-> "error", message |-> "Error generating answer"]}
               ELSE {[status |-> "success",
                      answer |-> c.answer,
                      sources |-> srcs,
                      context_used |-> Len(context_chunks)] :
                     srcs \in ListOfSet(all)} :
               c \in ChatCompletion(<<question, context_chunks>>)}

NoDocuments ==
    [status |-> "error",
     message |-> "No documents in knowledge base. Please upload documents first."]
NoRelevant ==
    [status |-> "error",
     message |-> "No relevant information found in the knowledge base."]

\* The ids of the entries the store returned, in its order.
Ids(results) == [i \in DOMAIN results |-> results[i].id]

\* query(question, top_k) from the retrieval on: the collection is not empty.
Answer(coll, question, top_k, cs) ==
    UNION {IF r.raised
           THEN {[result |-> Raised("Exception"), calls |-> r.calls,
                  ranking |-> Ids(r.results)]}
           ELSE IF r.context_chunks = <<>>
                THEN {[result |-> NoRelevant, calls |-> r.calls,
                       ranking |-> Ids(r.results)]}
                ELSE {[result |-> g @@ [retrieved_chunks |-> r.context_chunks],
                       calls |-> Called(r.calls, "llm"),
                       ranking |-> Ids(r.results)] :
                      g \in generate_answer(question, r.context_chunks)} :
           r \in retrieve_context(coll, question, top_k, cs)}

\* query without its first test: retrieval runs whatever count() says.
QueryWithoutCountTest(coll, question, top_k) ==
    Answer(coll, question, top_k, Called(NoCalls, "count"))

query(coll, question, top_k) ==
    UNION {IF n.raised
           THEN {[result |-> Raised("Exception"),
                  calls |-> Called(NoCalls, "count"), ranking |-> <<>>]}
           ELSE IF n.count = 0
                THEN {[result |-> NoDocuments,
                       calls |-> Called(NoCalls, "count"), ranking |-> <<>>]}
                ELSE Answer(coll, question, top_k, Called(NoCalls, "count")) :
           n \in CollectionCount(coll)}

get_stats(coll) ==
    {[result |-> IF n.raised
                 THEN [status |-> "error", message |-> "count failed"]
                 ELSE [status |-> "success", total_chunks |-> n.count,
                       collection_name |-> "knowledge_base"],
      calls |-> Called(NoCalls, "count")] :
     n \in CollectionCount(coll)}

\* clear_knowledge_base that reports success and keeps the collection.
ClearKeepsEntries(coll) ==
    {[collection |-> coll,
      result |-> [status |-> "success", message |-> "Knowledge base cleared"],
      calls |-> Called(Called(NoCalls, "delete"), "create")]}

clear_knowledge_base(coll) ==
    UNION {IF d.raised
           THEN {[collection |-> coll,
                  result |-> [status |-> "error", message |-> "delete failed"],
                  calls |-> Called(NoCalls, "delete")]}
           ELSE {[collection |-> IF c.raised THEN {} ELSE c.collection,
                  result |-> IF c.raised
                             THEN [status |-> "error", message |-> "create failed"]
                             ELSE [status |-> "success",
                                   message |-> "Knowledge base cleared"],
                  calls |-> Called(Called(NoCalls, "delete"), "create")] :
                 c \in CreateCollection} :
           d \in DeleteCollection(coll)}

(***************************************************************************)
(* Direct calls of the RAGEngine entrypoints.                              *)
(***************************************************************************)
NoRequest == [handler |-> "none"]
NoResponse == [status_code |-> 0]
NoCall == [op |-> "none"]
NoResult == [status |-> "none"]
NotCalled == [raised |-> "not called", chunks |-> <<>>]

\* The entrypoint call c returned (or raised) o.result after o.calls.
Core(c, o) ==
    /\ call' = c
    /\ result' = o.result
    /\ calls' = o.calls

\* The handler ended without calling the engine.
NoCore ==
    /\ call' = NoCall
    /\ result' = NoResult
    /\ calls' = NoCalls
    /\ lastChunks' = <<>>
    /\ ranking' = <<>>
    /\ UNCHANGED collection

IngestCall(file, document_name) ==
    [op |-> "ingest_document", file |-> file.name,
     document_name |-> DocumentName(file, document_name)]

Ingest ==
    \E file \in Files, document_name \in DocumentNames :
      \E o \in ingest_document(collection, backend, file, document_name) :
        /\ Core(IngestCall(file, document_name), o)
        /\ collection' = o.collection
        /\ lastChunks' = o.chunks
        /\ ranking' = <<>>
        /\ cleared' = "no"
        /\ request' = NoRequest
        /\ response' = NoResponse
        /\ UNCHANGED <<backend, uploads, survivors, cvars, svars>>

Query ==
    \E question \in Questions, top_k \in TopKs :
      \E o \in query(collection, question, top_k) :
        /\ Core([op |-> "query", question |-> question, top_k |-> top_k], o)
        /\ ranking' = o.ranking
        /\ lastChunks' = <<>>
        /\ request' = NoRequest
        /\ response' = NoResponse
        /\ UNCHANGED <<backend, collection, uploads, cleared, survivors, cvars, svars>>

GetStats ==
    \E o \in get_stats(collection) :
        /\ Core([op |-> "get_stats"], o)
        /\ lastChunks' = <<>>
        /\ ranking' = <<>>
        /\ request' = NoRequest
        /\ response' = NoResponse
        /\ UNCHANGED <<backend, collection, uploads, cleared, survivors, cvars, svars>>

Clear ==
    \E o \in clear_knowledge_base(collection) :
        /\ Core([op |-> "clear_knowledge_base"], o)
        /\ collection' = o.collection
        /\ lastChunks' = <<>>
        /\ ranking' = <<>>
        /\ cleared' = IF collection = {} THEN "nothing" ELSE "entries"
        /\ survivors' = o.collection
        /\ request' = NoRequest
        /\ response' = NoResponse
        /\ UNCHANGED <<backend, uploads, cvars, svars>>

(***************************************************************************)
(* The HTTP handlers of main.py.                                           *)
(***************************************************************************)
None == "None"

\* str.strip(): the text without its leading and trailing whitespace.
Strip(text) ==
    LET kept == {i \in DOMAIN text : text[i] \notin Whitespace}
    IN  IF kept = {} THEN <<>>
        ELSE SubSeq(text, CHOOSE i \in kept : \A j \in kept : i <= j,
                          CHOOSE i \in kept : \A j \in kept : j <= i)

\* QueryResponse(**result): the declared fields, None where result has none;
\* the other keys of result are dropped.
QueryResponse(r) ==
    [f \in {"status", "answer", "sources", "context_used", "message"} |->
        IF f \in DOMAIN r THEN r[f] ELSE None]

\* POST /upload
upload_document ==
    \E file \in Files :
      /\ request' = [handler |-> "upload_document", filename |-> file.name]
      /\ IF file.name.suffix \notin {".pdf", ".txt"}
         THEN /\ NoCore
              /\ response' = [status_code |-> 400,
                              detail |-> "Only PDF and TXT files are supported"]
              /\ UNCHANGED <<uploads, cleared>>
         ELSE \E o \in ingest_document(collection, backend, file, file.name) :
              /\ uploads' = uploads \cup {file.name}
              /\ Core(IngestCall(file, file.name), o)
              /\ collection' = o.collection
              /\ lastChunks' = o.chunks
              /\ ranking' = <<>>
              /\ cleared' = "no"
              /\ response' = IF o.result.status = "error"
                             THEN [status_code |-> 500,
                                   detail |-> o.result.message]
                             ELSE [status_code |-> 200, body |-> o.result]
      /\ UNCHANGED <<backend, survivors, cvars, svars>>

\* POST /query.  The HTTPException(400) of the empty question is raised
\* inside the try block, whose "except Exception" turns it into a 500.
query_knowledge_base ==
    \E question \in Questions, top_k \in TopKs :
      /\ request' = [handler |-> "query_knowledge_base",
                     question |-> question, top_k |-> top_k]
      /\ IF Strip(question) = <<>>
         THEN /\ NoCore
              /\ response' = [status_code |-> 500, detail |-> "Query failed"]
         ELSE \E o \in query(collection, question, top_k) :
              /\ Core([op |-> "query", question |-> question,
                       top_k |-> top_k], o)
              /\ ranking' = o.ranking
              /\ lastChunks' = <<>>
              /\ UNCHANGED collection
              /\ response' = IF IsException(o.result)
                             THEN [status_code |-> 500,
                                   detail |-> "Query failed"]
                             ELSE [status_code |-> 200,
                                   body |-> QueryResponse(o.result)]
      /\ UNCHANGED <<backend, uploads, cleared, survivors, cvars, svars>>

\* GET /stats
http_get_stats ==
    \E o \in get_stats(collection) :
        /\ request' = [handler |-> "get_stats"]
        /\ Core([op |-> "get_stats"], o)
        /\ lastChunks' = <<>>
        /\ ranking' = <<>>
        /\ response' = [status_code |-> 200, body |-> o.result]
        /\ UNCHANGED <<backend, collection, uploads, cleared, survivors, cvars, svars>>

\* DELETE /clear: clears the engine, then removes the uploaded files.
http_clear_knowledge_base ==
    \E o \in clear_knowledge_base(collection) :
        /\ request' = [handler |-> "clear_knowledge_base"]
        /\ Core([op |-> "clear_knowledge_base"], o)
        /\ collection' = o.collection
        /\ lastChunks' = <<>>
        /\ ranking' = <<>>
        /\ cleared' = IF collection = {} THEN "nothing" ELSE "entries"
        /\ survivors' = o.collection
        /\ uploads' = {}
        /\ response' = [status_code |-> 200, body |-> o.result]
        /\ UNCHANGED <<backend, cvars, svars>>

(***************************************************************************)
(* The server: uvicorn.run(app) serves every request on one event loop.    *)
(* The handlers are coroutines (async def) without an await: the loop runs *)
(* the handler of one accepted request from its first line to its return   *)
(* before it runs another.                                                 *)
(***************************************************************************)
MaxRequests == 3     \* the requests one run of the server accepts
RequestIds == 1..MaxRequests

\* The uploads and questions the clients send.
ServedFiles == {f \in Files : f.data \notin {<<>>, LongText}}
ServedQueries == {[question |-> q, top_k |-> MaxTopK] : q \in Questions \ {<<>>}}

NoArg == [none |-> TRUE]
NoEpoch == -1

\* A request: its handler, the handler's argument and position, what the
\* engine returned to it and what it answered.  History: first and seen are
\* the epoch and the entries at the handler's first call of the store,
\* midclear and torn tell that one of its store calls ran on a dropped
\* collection or in another epoch than the first, overtook holds the
\* requests that waited while a clear was between its two steps, left the
\* entries of the collection when that clear returned.
NoTask == [handler |-> "none", pc |-> "idle", arg |-> NoArg,
           result |-> NoResult, response |-> NoResponse,
           first |-> NoEpoch, seen |-> {}, midclear |-> FALSE, torn |-> FALSE,
           overtook |-> {}, left |-> {}]

\* The handler is between its first line and its return.
InHandler(t) == t.pc \in {"counted", "deleted"}

\* The handlers as plain functions (def): each request runs on a thread of
\* the worker pool, whatever the other requests are doing.
ThreadPoolRuns(id) == TRUE

\* The event loop runs the next step of request id: no other handler is
\* between its first line and its return.
EventLoopRuns(id) ==
    \A other \in RequestIds \ {id} : ~InHandler(tasks[other])

(***************************************************************************)
(* The engine: every sequence of calls.                                    *)
(***************************************************************************)
EngineInit ==
    /\ backend \in Backends
    /\ collection = {}
    /\ uploads = {}
    /\ request = NoRequest
    /\ response = NoResponse
    /\ call = NoCall
    /\ result = NoResult
    /\ calls = NoCalls
    /\ lastChunks = <<>>
    /\ ranking = <<>>
    /\ cleared = "no"
    /\ survivors = {}
    /\ tasks = [id \in RequestIds |-> NoTask]
    /\ dropped = FALSE
    /\ epoch = 0

Init ==
    /\ EngineInit
    /\ cText = <<>>
    /\ cSize = DefaultChunkSize
    /\ cOverlap = DefaultOverlap
    /\ cOut = NotCalled

Next ==
    \/ Ingest
    \/ Query
    \/ GetStats
    \/ Clear
    \/ upload_document
    \/ query_knowledge_base
    \/ http_get_stats
    \/ http_clear_knowledge_base

Spec == Init /\ [][Next]_vars

(***************************************************************************)
(* chunk_text alone: one call on every text and every pair of parameters   *)
(* within the bounds, and on a text of chunk_size words with the defaults. *)
(***************************************************************************)
Chars == {"a", "b", " ", "\n"}
Texts == UNION {[1..n -> Chars] : n \in 0..MaxLen}

InitChunk ==
    /\ EngineInit
    /\ cOut = NotCalled
    /\ \/ /\ cText \in Texts
          /\ cSize \in 1..MaxChunkSize
          /\ cOverlap \in 0..MaxOverlap
       \/ /\ cText = WordsText(DefaultChunkSize)
          /\ cSize = DefaultChunkSize
          /\ cOverlap = DefaultOverlap

ChunkCall ==
    /\ cOut = NotCalled
    /\ cOut' = chunk_text(cText, cSize, cOverlap)
    /\ UNCHANGED <<evars, cText, cSize, cOverlap, svars>>

NextChunk == ChunkCall

SpecChunk == InitChunk /\ [][NextChunk]_vars

(***************************************************************************)
(* The server under concurrent requests.  clear_knowledge_base is two      *)
(* steps, delete_collection and create_collection; query is two steps,     *)
(* count() and the retrieval with the answer.                              *)
(***************************************************************************)
Requests ==
    {[handler |-> "upload_document", arg |-> f] : f \in ServedFiles}
    \cup {[handler |-> "query_knowledge_base", arg |-> q] : q \in ServedQueries}
    \cup {[handler |-> "clear_knowledge_base", arg |-> NoArg]}

\* A client's request reaches the server: it waits for the event loop.
Accept ==
    \E id \in RequestIds, r \in Requests :
      /\ tasks[id].pc = "idle"
      /\ \A other \in 1..(id - 1) : tasks[other].pc # "idle"
      /\ tasks' = [tasks EXCEPT ![id] =
                      [NoTask EXCEPT !.handler = r.handler, !.arg = r.arg,
                                     !.pc = "accepted"]]
      /\ UNCHANGED <<evars, cvars, dropped, epoch>>

\* The request is at the first line of its handler and gets the loop.
Starts(id, handler) ==
    /\ tasks[id].handler = handler
    /\ tasks[id].pc = "accepted"
    /\ EventLoopRuns(id)

\* The handler of request id returns.
Return(id, fields) ==
    tasks' = [tasks EXCEPT ![id] = fields @@ [pc |-> "returned"] @@ tasks[id]]

\* What is left of the engine's state in a step of a handler.
ServeFrame == UNCHANGED <<backend, request, response, call, result, calls,
                          lastChunks, ranking, cleared, survivors, cvars>>

\* POST /upload, from the first line to the return.
ServeUpload ==
    \E id \in RequestIds :
      /\ Starts(id, "upload_document")
      /\ LET file == tasks[id].arg
         IN  IF file.name.suffix \notin {".pdf", ".txt"}
             THEN /\ Return(id, [response |->
                                   [status_code |-> 400,
                                    detail |-> "Only PDF and TXT files are supported"]])
                  /\ UNCHANGED <<collection, uploads>>
             ELSE \E o \in ingest_document(collection, backend, file, file.name) :
                  /\ uploads' = uploads \cup {file.name}
                  /\ collection' = o.collection
                  /\ Return(id, [result |-> o.result,
                                 response |->
                                   IF o.result.status = "error"
                                   THEN [status_code |-> 500,
                                         detail |-> o.result.message]
                                   ELSE [status_code |-> 200, body |-> o.result],
                                 first |-> epoch, seen |-> collection,
                                 midclear |-> dropped])
      /\ UNCHANGED <<dropped, epoch>>
      /\ ServeFrame

\* collection.count() on the collection self.collection is bound to.  On a
\* dropped collection the store fails the call or answers it from the
\* entries the binding still holds.
BoundCount ==
    CollectionCount(collection)
    \cup (IF dropped THEN {[raised |-> TRUE, count |-> 0]} ELSE {})

\* The response of POST /query to what RAGEngine.query returned or raised.
QueryReply(r) ==
    IF IsException(r)
    THEN [status_code |-> 500, detail |-> "Query failed"]
    ELSE [status_code |-> 200, body |-> QueryResponse(r)]

\* POST /query, from the first line to the return of count().
ServeQueryCount ==
    \E id \in RequestIds :
      /\ Starts(id, "query_knowledge_base")
      /\ LET q == tasks[id].arg
             Counted(fields) ==
                 fields @@ [first |-> epoch, seen |-> collection,
                            midclear |-> dropped]
         IN  IF Strip(q.question) = <<>>
             THEN Return(id, [response |-> [status_code |-> 500,
                                            detail |-> "Query failed"]])
             ELSE \E n \in BoundCount :
                  IF n.raised
                  THEN Return(id, Counted([result |-> Raised("Exception"),
                                           response |-> QueryReply(Raised("Exception"))]))
                  ELSE IF n.count = 0
                       THEN Return(id, Counted([result |-> NoDocuments,
                                                response |-> QueryReply(NoDocuments)]))
                       ELSE tasks' = [tasks EXCEPT ![id] =
                                         Counted([pc |-> "counted"]) @@ tasks[id]]
      /\ UNCHANGED <<collection, uploads, dropped, epoch>>
      /\ ServeFrame

\* POST /query, from retrieve_context to the return.
ServeQueryAnswer ==
    \E id \in RequestIds :
      /\ tasks[id].pc = "counted"
      /\ EventLoopRuns(id)
      /\ LET q == tasks[id].arg
         IN  \E o \in Answer(collection, q.question, q.top_k,
                              Called(NoCalls, "count")) :
                Return(id, [result |-> o.result,
                            response |-> QueryReply(o.result),
                            midclear |-> tasks[id].midclear \/ dropped,
                            torn |-> epoch # tasks[id].first])
      /\ UNCHANGED <<collection, uploads, dropped, epoch>>
      /\ ServeFrame

\* chroma_client.delete_collection("knowledge_base"): fails when the client
\* has no such collection.
BoundDelete ==
    IF dropped THEN {[raised |-> TRUE]} ELSE DeleteCollection(collection)

\* The requests that wait for the event loop.
Waiting == {id \in RequestIds : tasks[id].pc = "accepted"}

\* DELETE /clear, from the first line to the return of delete_collection.
\* When the delete fails the engine returns an error dict and the handler
\* goes on: it removes the uploaded files and returns the dict.
ServeClearDelete ==
    \E id \in RequestIds :
      /\ Starts(id, "clear_knowledge_base")
      /\ \E d \in BoundDelete :
           IF d.raised
           THEN /\ Return(id, [result |-> [status |-> "error",
                                           message |-> "delete failed"],
                               response |->
                                 [status_code |-> 200,
                                  body |-> [status |-> "error",
                                            message |-> "delete failed"]],
                               first |-> epoch, seen |-> collection,
                               left |-> collection])
                /\ uploads' = {}
                /\ UNCHANGED <<dropped, epoch>>
           ELSE /\ tasks' = [tasks EXCEPT ![id] =
                                [pc |-> "deleted", first |-> epoch,
                                 seen |-> collection] @@ tasks[id]]
                /\ dropped' = TRUE
                /\ epoch' = epoch + 1
                /\ UNCHANGED uploads
      /\ UNCHANGED collection
      /\ ServeFrame

\* DELETE /clear, from create_collection to the return: self.collection is
\* bound to the new collection and the uploaded files are removed.
ServeClearCreate ==
    \E id \in RequestIds :
      /\ tasks[id].pc = "deleted"
      /\ EventLoopRuns(id)
      /\ \E c \in CreateCollection :
           LET r == IF c.raised
                    THEN [status |-> "error", message |-> "create failed"]
                    ELSE [status |-> "success",
                          message |-> "Knowledge base cleared"]
               now == IF c.raised THEN collection ELSE c.collection
           IN  /\ collection' = now
               /\ dropped' = c.raised
               /\ Return(id, [result |-> r,
                              response |-> [status_code |-> 200, body |-> r],
                              overtook |-> Waiting, left |-> now])
      /\ epoch' = epoch + 1
      /\ uploads' = {}
      /\ ServeFrame

NextServe ==
    \/ Accept
    \/ ServeUpload
    \/ ServeQueryCount
    \/ ServeQueryAnswer
    \/ ServeClearDelete
    \/ ServeClearCreate

SpecServe == Init /\ [][NextServe]_vars

(***************************************************************************)
(* Properties.                                                             *)
(***************************************************************************)
Ingested == call.op = "ingest_document"
Queried == call.op = "query"
Returned == ~IsException(result)
Called_chunk_text == cOut # NotCalled

\* The entry of the collection with this id.
Entry(id) == CHOOSE e \in collection : e.id = id
HeldIds(coll) == {e.id : e \in coll}

\* C1: an ingest_document call either reports success with chunks_created
\* equal to the number of chunks made and every one of those chunks in the
\* index under its chunk id, or reports an error and leaves the index as it
\* was.
C1_IngestAllOrNothing ==
    [][call'.op = "ingest_document" =>
         \/ /\ result'.status = "success"
            /\ result'.chunks_created = Len(lastChunks')
            /\ \A i \in DOMAIN lastChunks' :
                  \E e \in collection' :
                     /\ e.id = ChunkId(call'.document_name, i - 1)
                     /\ e.document = lastChunks'[i]
         \/ /\ result'.status = "error"
            /\ collection' = collection]_vars

\* C2: a query against an index of zero entries returns the "no documents"
\* error and invokes neither the embedding model nor the LLM.
C2_EmptyIndexShortCircuits ==
    (Queried /\ collection = {}) =>
        /\ result = NoDocuments
        /\ calls.encode = 0
        /\ calls.llm = 0

C2_Witness ==
    /\ Queried
    /\ collection = {}
    /\ cleared = "entries"
    /\ Strip(call.question) # <<>>
    /\ result = NoDocuments

\* C3: after clear_knowledge_base has returned and until the next ingestion,
\* get_stats reports total_chunks = 0 and a query returns the "no documents"
\* error without invoking the LLM; and no query ever ranks an entry that a
\* clear left behind.
C3_ClearEmptiesIndex ==
    /\ (cleared # "no" /\ call.op = "get_stats") =>
          (result.status = "success" /\ result.total_chunks = 0)
    /\ (cleared # "no" /\ Queried) =>
          (result = NoDocuments /\ calls.llm = 0 /\ ranking = <<>>)
    /\ cleared # "no" => collection = {}
    /\ Queried => \A i \in DOMAIN ranking : ranking[i] \notin HeldIds(survivors)

C3_Witness ==
    /\ cleared = "entries"
    /\ call.op = "get_stats"
    /\ result.total_chunks = 0
    /\ survivors = {}

\* C4: an ingest_document call whose chunk ids are already in the index
\* reports an error and leaves the index as it was; and no two entries of
\* the index ever share a chunk id.
C4_DuplicateNameRejected ==
    [][/\ (/\ call'.op = "ingest_document"
           /\ \E i \in DOMAIN lastChunks' :
                 ChunkId(call'.document_name, i - 1) \in HeldIds(collection))
          => (result'.status = "error" /\ collection' = collection)
       /\ \A e1, e2 \in collection' : e1.id = e2.id => e1 = e2]_vars

\* The last request, to the engine or to POST /query, asked a blank question.
BlankQuery ==
    \/ request.handler = "query_knowledge_base" /\ Strip(request.question) = <<>>
    \/ request.handler = "none" /\ Queried /\ Strip(call.question) = <<>>

\* Its caller got a dict of status "error".
SurfacedAsError ==
    IF request.handler = "none"
    THEN Returned /\ result.status = "error"
    ELSE "body" \in DOMAIN response /\ response.body.status = "error"

\* C5: a query whose question is empty or all whitespace, made of the engine
\* or of POST /query, ends in a status-error result without count(), the
\* embedding model or the LLM having been invoked.
C5_BlankQuestionRejected ==
    BlankQuery =>
        /\ SurfacedAsError
        /\ calls.count = 0
        /\ calls.encode = 0
        /\ calls.llm = 0

\* C6: no exception leaves ingest_document, query, get_stats or
\* clear_knowledge_base: each returns a dict of status "success" or "error".
C6_NoExceptionEscapes ==
    call.op # "none" => (Returned /\ result.status \in {"success", "error"})

\* C7: chunk_text on a text of 1..chunk_size words with 0 <= overlap <
\* chunk_size returns exactly one chunk, the words of the text joined by
\* single spaces.
C7_ShortTextOneChunk ==
    (/\ Called_chunk_text
     /\ Len(split(cText)) \in 1..cSize
     /\ cOverlap < cSize)
    => (cOut.raised = "none" /\ cOut.chunks = <<join(split(cText))>>)

\* C8: chunk_text with overlap >= chunk_size raises an error and returns no
\* chunk list.
C8_BadOverlapRejected ==
    (Called_chunk_text /\ cOverlap >= cSize) => cOut.raised # "none"

\* The words of the first chunk followed by those of each later chunk
\* without its first n words.
DropFirst(words, n) == SubSeq(words, n + 1, Len(words))
RECURSIVE Rebuild(_, _, _)
Rebuild(chunks, k, n) ==
    IF k > Len(chunks) THEN <<>>
    ELSE (IF k = 1 THEN split(chunks[k]) ELSE DropFirst(split(chunks[k]), n))
         \o Rebuild(chunks, k + 1, n)

\* C9: with 0 <= overlap < chunk_size, chunk_text returns without an error;
\* chunk number i (from 0) is the words at positions i*(chunk_size-overlap)
\* up to, not including, i*(chunk_size-overlap)+chunk_size joined by single
\* spaces; no chunk is empty; and the first chunk followed by every later
\* chunk without its first overlap words is the word sequence of the text.
C9_ChunksCoverAllWords ==
    (Called_chunk_text /\ cOverlap < cSize) =>
        LET words == split(cText)
            step == cSize - cOverlap
        IN  /\ cOut.raised = "none"
            /\ \A k \in DOMAIN cOut.chunks :
                  /\ cOut.chunks[k] # <<>>
                  /\ cOut.chunks[k] = join(Slice(words, (k - 1) * step, cSize))
            /\ Rebuild(cOut.chunks, 1, cOverlap) = words

C9_Witness ==
    /\ Called_chunk_text
    /\ cOverlap >= 1
    /\ cOverlap < cSize
    /\ Len(cOut.chunks) >= 3

\* C10: a successful query reports as context_used the number of chunks
\* retrieved, at most top_k and at most the size of the index; its sources
\* are, without repetition, the source names of the retrieved chunks, each
\* the source of an entry of the index; and the retrieved chunks are the
\* entries the store ranked, in its order.
C10_SuccessfulQueryShape ==
    (Queried /\ Returned /\ result.status = "success") =>
        LET rc == result.retrieved_chunks
            srcs == result.sources
        IN  /\ result.context_used = Len(rc)
            /\ Len(rc) = Len(ranking)
            /\ Len(rc) <= call.top_k
            /\ Len(rc) <= Cardinality(collection)
            /\ ~HasDuplicates(srcs)
            /\ {srcs[i] : i \in DOMAIN srcs} = {rc[i].source : i \in DOMAIN rc}
            /\ \A i \in DOMAIN srcs :
                  \E e \in collection : e.metadata.source = srcs[i]
            /\ Len(srcs) <= result.context_used
            /\ \A i \in DOMAIN rc :
                  /\ rc[i].text = Entry(ranking[i]).document
                  /\ rc[i].source = Entry(ranking[i]).metadata.source

C10_Witness ==
    /\ Queried
    /\ Returned
    /\ result.status = "success"
    /\ result.context_used = 3
    /\ Len(result.sources) = 2

\* What RAGEngine.query or ingest_document can return or raise when it runs
\* alone on the entries the request saw at its first call of the store.
RunAlone(t) ==
    IF t.handler = "query_knowledge_base"
    THEN {o.result : o \in query(t.seen, t.arg.question, t.arg.top_k)}
    ELSE {o.result : o \in ingest_document(t.seen, backend, t.arg, t.arg.name)}

\* C11: between the delete-collection step and the create-collection step
\* of a clear no upload and no query runs a step of its handler, so none of
\* their store calls meets a dropped collection; every call a query makes of
\* the store falls between the same two clear steps; what a served upload
\* or query got from the engine is what the call gives when it runs alone
\* on the index it first saw; and a clear that reports success returns on
\* an empty index.
C11_ClearIsCriticalSection ==
    /\ dropped => \A id \in RequestIds :
                    \/ tasks[id].pc \in {"idle", "accepted", "returned"}
                    \/ tasks[id].handler = "clear_knowledge_base"
    /\ \A id \in RequestIds :
          LET t == tasks[id]
          IN  /\ t.handler \in {"upload_document", "query_knowledge_base"} =>
                    /\ ~t.midclear
                    /\ ~t.torn
                    /\ t.first # NoEpoch => t.first % 2 = 0
                    /\ (t.pc = "returned" /\ t.first # NoEpoch) =>
                           t.result \in RunAlone(t)
              /\ (/\ t.handler = "clear_knowledge_base"
                  /\ t.pc = "returned"
                  /\ t.result.status = "success") => t.left = {}

\* A clear found entries in the index and returned while a query was
\* waiting; the query was served right after it, on the empty index.
C11_Witness ==
    \E c, q \in RequestIds :
        /\ tasks[c].handler = "clear_knowledge_base"
        /\ tasks[c].pc = "returned"
        /\ tasks[c].result.status = "success"
        /\ tasks[c].seen # {}
        /\ q \in tasks[c].overtook
        /\ tasks[q].handler = "query_knowledge_base"
        /\ tasks[q].pc = "returned"
        /\ tasks[q].result = NoDocuments
        /\ tasks[q].first = tasks[c].first + 2

====
